---------------------------- MODULE Spec2Model ----------------------------
(***************************************************************************)
(* Model of the schema-validation helper (src/helpers/schemaValidator.ts)  *)
(* and of the schemas it is used with (src/fixtures/api-fixtures.ts).      *)
(* and of the HTTP client wrapper BaseClient with its UsersService         *)
(* (src/services/userService.ts).                                          *)
(*                                                                         *)
(* JavaScript values are tagged records: [t |-> <type tag>] and one field  *)
(* for the content, named differently for each type.                      *)
(* A string is a sequence of atoms; an atom is an indivisible piece of     *)
(* text.  The characters the code inspects ("/" and "~") are always atoms  *)
(* of their own, so that splitting a pointer on "/" is computed, not       *)
(* assumed.  String values inside payloads use one-character atoms.        *)
(***************************************************************************)
EXTENDS Integers, Sequences, FiniteSets, TLC

VARIABLES
  call,            \* the call in progress / last made: [fn, schema, data]
  ret,             \* its outcome: a returned result or a thrown error
  validateErrors,  \* ajv's compiled validators: schema name -> validate.errors
  dataAfter,       \* the data object as it is after the call returned
  ncalls,          \* number of calls made so far
  first,           \* the first call made (history, recorded on request)
  firstRet,        \* the outcome of that first call
  basePath,        \* BaseClient: this.basePath
  effects,         \* what the client did, in order: console lines written
                   \* and requests handed to the transport (this.request)
  calls            \* the calls made on the client and their promises

validatorVars == <<call, ret, validateErrors, dataAfter, ncalls, first, firstRet>>
clientVars == <<basePath, effects, calls>>
vars == <<validatorVars, clientVars>>

---------------------------------------------------------------------------
(* JavaScript values *)

Undefined == [t |-> "undefined"]
Null == [t |-> "null"]
Bool(b) == [t |-> "boolean", b |-> b]
\* A number n + f/10 (f is 0 or 5): integers and the halves between them.
NumF(n, f) == [t |-> "number", n |-> n, f |-> f]
Num(n) == NumF(n, 0)
BigInt(n) == [t |-> "bigint", i |-> n]
Str(s) == [t |-> "string", s |-> s]
\* An object is a function from keys (strings) to values.
Obj(f) == [t |-> "object", o |-> f]
Arr(a) == [t |-> "array", a |-> a]
\* A function value (only ever inspected with typeof).
Fn(name) == [t |-> "function", name |-> name]

EmptyObj == Obj(<<>>)

IsNullish(x) == x.t \in {"undefined", "null"}

\* JavaScript truthiness (ToBoolean).
Truthy(x) ==
  CASE x.t \in {"undefined", "null"} -> FALSE
    [] x.t = "boolean" -> x.b
    [] x.t = "number" -> ~(x.n = 0 /\ x.f = 0)
    [] x.t = "bigint" -> x.i # 0
    [] x.t = "string" -> x.s # <<>>
    [] OTHER -> TRUE

\* Decimal text of a non-negative number.
DecStr(x) == IF x.f = 0 THEN <<ToString(x.n)>> ELSE <<ToString(x.n), ".", ToString(x.f)>>

\* String(x) for the values the code converts.
JsString(x) ==
  CASE x.t = "string" -> x.s
    [] x.t = "number" -> DecStr(x)
    [] x.t = "undefined" -> <<"undefined">>
    [] x.t = "null" -> <<"null">>
    [] x.t = "boolean" -> IF x.b THEN <<"true">> ELSE <<"false">>
    [] x.t = "bigint" -> <<ToString(x.i)>>
    [] OTHER -> <<"[object Object]">>

\* The array index a property key denotes, or -1.
IndexOfKey(key) ==
  IF \E i \in 0..9 : key = <<ToString(i)>>
  THEN CHOOSE i \in 0..9 : key = <<ToString(i)>>
  ELSE -1

\* x[key] for an x that is neither undefined nor null: own properties of
\* objects, elements and length of arrays, characters and length of strings.
PropertyOf(x, key) ==
  CASE x.t = "object" -> IF key \in DOMAIN x.o THEN x.o[key] ELSE Undefined
    [] x.t = "array" ->
         IF key = <<"length">> THEN Num(Len(x.a))
         ELSE IF IndexOfKey(key) + 1 \in 1..Len(x.a) THEN x.a[IndexOfKey(key) + 1]
         ELSE Undefined
    [] x.t = "string" ->
         IF key = <<"length">> THEN Num(Len(x.s))
         ELSE IF IndexOfKey(key) + 1 \in 1..Len(x.s) THEN Str(<<x.s[IndexOfKey(key) + 1]>>)
         ELSE Undefined
    [] OTHER -> Undefined

\* Mutant: x[key] without the optional chaining: reading a property of
\* undefined or null is a TypeError.
OptGet_Strict(x, key) ==
  IF x.t \in {"undefined", "null"} THEN [t |-> "TypeError"] ELSE PropertyOf(x, key)

\* x?.[key]: property read with optional chaining.
OptGet(x, key) ==
  IF x.t \in {"undefined", "null"} THEN Undefined ELSE PropertyOf(x, key)

---------------------------------------------------------------------------
(* Strings: helpers over sequences of atoms *)

RECURSIVE Concat(_)
\* The concatenation of a sequence of strings.
Concat(ss) == IF ss = <<>> THEN <<>> ELSE Head(ss) \o Concat(Tail(ss))

RECURSIVE Join(_, _)
\* Array.prototype.join: the strings of ss separated by sep.
Join(ss, sep) ==
  IF ss = <<>> THEN <<>>
  ELSE IF Len(ss) = 1 THEN ss[1]
  ELSE ss[1] \o sep \o Join(Tail(ss), sep)

RECURSIVE SplitFrom(_, _, _)
\* String.prototype.split(sep) for a one-atom separator: cur is the segment
\* being read.  Splitting the empty string yields one empty segment.
SplitFrom(s, sep, cur) ==
  IF s = <<>> THEN <<cur>>
  ELSE IF Head(s) = sep THEN <<cur>> \o SplitFrom(Tail(s), sep, <<>>)
  ELSE SplitFrom(Tail(s), sep, Append(cur, Head(s)))

Split(s, sep) == SplitFrom(s, sep, <<>>)

\* Array.prototype.filter((s) => s.length > 0)
FilterNonEmpty(ss) == SelectSeq(ss, LAMBDA x : Len(x) > 0)

RECURSIVE ReplaceAtom(_, _, _)
\* String.prototype.replace(/a/g, by) for a one-atom pattern.
ReplaceAtom(s, a, by) ==
  IF s = <<>> THEN <<>>
  ELSE (IF Head(s) = a THEN by ELSE <<Head(s)>>) \o ReplaceAtom(Tail(s), a, by)

---------------------------------------------------------------------------
(* validateSchema: one raw AJV error -> ValidationError *)

\* A raw error object as the code reads it: every property the code looks
\* at is a field, Undefined when the object does not have it.
RawError(instancePath, dataPath, params, message) ==
  [instancePath |-> instancePath, dataPath |-> dataPath,
   params |-> params, message |-> message]

\* e.params: Undefined, or the parameters object.
Params(allowedValues, type, format) ==
  [t |-> "object", allowedValues |-> allowedValues, type |-> type, format |-> format]

\* a ?? b
Coalesce(a, b) == IF IsNullish(a) THEN b ELSE a

\* const pointer = e.instancePath ?? e.dataPath ?? ""
PointerOf(e) == Coalesce(Coalesce(e.instancePath, e.dataPath), Str(<<>>))

\* pointer ? pointer.split("/").filter((s) => s.length > 0) : []
ParsePointer(pointer) ==
  IF Truthy(pointer) THEN FilterNonEmpty(Split(pointer.s, "/")) ELSE <<>>

\* Mutant: the type name is preferred to the allowed values.
ExpectedOf_TypeFirst(e) ==
  IF Truthy(e.params)
  THEN IF e.params.type # Undefined THEN e.params.type
       ELSE IF e.params.allowedValues # Undefined THEN e.params.allowedValues
       ELSE IF e.params.format # Undefined THEN e.params.format
       ELSE Null
  ELSE Null

\* The expected value inferred from e.params, by the code's if / else-if chain.
ExpectedOf(e) ==
  IF Truthy(e.params)
  THEN IF e.params.allowedValues # Undefined THEN e.params.allowedValues
       ELSE IF e.params.type # Undefined THEN e.params.type
       ELSE IF e.params.format # Undefined THEN e.params.format
       ELSE Null
  ELSE Null

RECURSIVE WalkLoop(_, _, _)
\* for (const key of path) received = received?.[key], from position i on.
WalkLoop(received, path, i) ==
  IF i > Len(path) THEN received
  ELSE WalkLoop(OptGet(received, path[i]), path, i + 1)

\* The received value: the walk when the path is non-empty, else the data.
ReceivedOf(data, path) ==
  IF Len(path) > 0 THEN WalkLoop(data, path, 1) ELSE data

\* x === undefined ? null : x
UndefToNull(x) == IF x = Undefined THEN Null ELSE x

\* String(m ?? "")
MessageOf(m) == JsString(Coalesce(m, Str(<<>>)))

\* The body of rawErrors.map((e) => ...).
MapAjvError(e, data) ==
  LET path == ParsePointer(PointerOf(e))
  IN [path |-> path,
      message |-> MessageOf(e.message),
      expected |-> UndefToNull(ExpectedOf(e)),
      received |-> UndefToNull(ReceivedOf(data, path))]

---------------------------------------------------------------------------
(* The schemas of the repository *)

K_id == <<"id">>
K_userName == <<"userName">>
K_password == <<"password">>

\* Mutant: password is not listed as required.
singleUserSchema_PasswordOptional ==
  [type |-> <<"object">>,
   properties |-> << <<K_id, [type |-> <<"number">>]>>,
                     <<K_userName, [type |-> <<"string">>]>>,
                     <<K_password, [type |-> <<"string">>]>> >>,
   required |-> <<K_id, K_userName>>]

\* A JSON Schema is a record with the keywords it uses; properties is the
\* sequence of <<key, sub-schema>> in declaration order.
singleUserSchema ==
  [type |-> <<"object">>,
   properties |-> << <<K_id, [type |-> <<"number">>]>>,
                     <<K_userName, [type |-> <<"string">>]>>,
                     <<K_password, [type |-> <<"string">>]>> >>,
   required |-> <<K_id, K_userName, K_password>>]

allUserSchema ==
  [type |-> <<"array">>,
   items |-> [type |-> <<"object">>,
              properties |-> << <<K_id, [type |-> <<"integer">>]>>,
                                <<K_userName, [type |-> <<"string">>]>>,
                                <<K_password, [type |-> <<"string">>]>> >>,
              required |-> <<K_id, K_userName, K_password>>]]

\* z.object({ id: z.number(), userName: z.string(), password: z.string() })
zodSingleUserSchema ==
  [zod |-> "object",
   shape |-> << <<K_id, [zod |-> "number"]>>,
                <<K_userName, [zod |-> "string"]>>,
                <<K_password, [zod |-> "string"]>> >>]

---------------------------------------------------------------------------
(* ajv = new Ajv({ allErrors: true, verbose: true }): the validation the   *)
(* compiled function performs, for the keywords type, enum, items,         *)
(* required and properties, in the order ajv's generated code applies them *)

\* The options the instance is constructed with.
ajv == [allErrors |-> TRUE, verbose |-> TRUE]

\* JSON-pointer escaping of a property name in instancePath.
EscapeJsonPointer(key) == ReplaceAtom(ReplaceAtom(key, "~", <<"~", "0">>), "/", <<"~", "1">>)

\* Does the data have JSON type ty?
IsJsonType(ty, x) ==
  CASE ty = <<"number">> -> x.t = "number"
    [] ty = <<"integer">> -> x.t = "number" /\ x.f = 0
    [] ty = <<"string">> -> x.t = "string"
    [] ty = <<"boolean">> -> x.t = "boolean"
    [] ty = <<"object">> -> x.t = "object"
    [] ty = <<"array">> -> x.t = "array"
    [] ty = <<"null">> -> x.t = "null"
    [] OTHER -> FALSE

Has(schema, kw) == kw \in DOMAIN schema

\* The keyword group (by data type) a type name selects, and whether the
\* schema has keywords of that group: then the type error is reported from
\* inside the group, after the untyped keywords.
HasRulesForType(schema) ==
  \/ schema.type = <<"object">> /\ (Has(schema, "required") \/ Has(schema, "properties"))
  \/ schema.type = <<"array">> /\ Has(schema, "items")

TypeError(schema, ip) ==
  RawError(Str(ip), Undefined, Params(Undefined, Str(schema.type), Undefined),
           Str(<<"must be ">> \o schema.type))

EnumError(schema, ip) ==
  RawError(Str(ip), Undefined, Params(Arr(schema.enum), Undefined, Undefined),
           Str(<<"must be equal to one of the allowed values">>))

\* params is { missingProperty }: none of the three parameters the code reads.
RequiredError(key, ip) ==
  RawError(Str(ip), Undefined, Params(Undefined, Undefined, Undefined),
           Str(<<"must have required property '">> \o key \o <<"'">>))

\* With allErrors every violation is collected; without, the first only.
Collect(errs) == IF ajv.allErrors \/ errs = <<>> THEN errs ELSE <<errs[1]>>

RECURSIVE AjvErrors(_, _, _)
\* The errors of validating x, found at instance path ip, against schema.
AjvErrors(schema, x, ip) ==
  LET typed == Has(schema, "type")
      typeOk == ~typed \/ IsJsonType(schema.type, x)
      deferred == typed /\ HasRulesForType(schema)
      typeFirst == IF ~typeOk /\ ~deferred THEN <<TypeError(schema, ip)>> ELSE <<>>
      enumErrs == IF Has(schema, "enum") /\ ~(\E i \in 1..Len(schema.enum) : schema.enum[i] = x)
                  THEN <<EnumError(schema, ip)>> ELSE <<>>
      itemErrs == IF x.t = "array" /\ Has(schema, "items")
                  THEN Concat([i \in 1..Len(x.a) |->
                         AjvErrors(schema.items, x.a[i], ip \o <<"/", ToString(i - 1)>>)])
                  ELSE <<>>
      arrayType == IF ~typeOk /\ deferred /\ schema.type = <<"array">>
                   THEN <<TypeError(schema, ip)>> ELSE <<>>
      reqErrs == IF x.t = "object" /\ Has(schema, "required")
                 THEN Concat([i \in 1..Len(schema.required) |->
                        IF OptGet(x, schema.required[i]) = Undefined
                        THEN <<RequiredError(schema.required[i], ip)>> ELSE <<>>])
                 ELSE <<>>
      propErrs == IF x.t = "object" /\ Has(schema, "properties")
                  THEN Concat([i \in 1..Len(schema.properties) |->
                         LET key == schema.properties[i][1]
                         IN IF OptGet(x, key) # Undefined
                            THEN AjvErrors(schema.properties[i][2], OptGet(x, key),
                                           ip \o <<"/">> \o EscapeJsonPointer(key))
                            ELSE <<>>])
                  ELSE <<>>
      objectType == IF ~typeOk /\ deferred /\ schema.type = <<"object">>
                    THEN <<TypeError(schema, ip)>> ELSE <<>>
  IN Collect(typeFirst \o enumErrs \o itemErrs \o arrayType \o reqErrs \o propErrs \o objectType)

---------------------------------------------------------------------------
(* zod: what schema.safeParse(data) returns, for z.object, z.number,       *)
(* z.string, z.null and z.any                                              *)

\* zod's name for the type of a value (getParsedType).
ZodParsedType(x) == <<x.t>>

\* An issue as the code reads it: path, message and expected.
ZodIssue(path, message, expected) ==
  [path |-> path, message |-> message, expected |-> expected]

\* The invalid_type issue zod raises at path for a value of the wrong type.
InvalidType(expected, x, path) ==
  ZodIssue(Arr(path),
           IF x = Undefined THEN Str(<<"Required">>)
           ELSE Str(<<"Expected ">> \o expected \o <<", received ">> \o ZodParsedType(x)),
           Str(expected))

\* The keys of an object shape, in declaration order.
ShapeKeys(schema) == {schema.shape[i][1] : i \in 1..Len(schema.shape)}

RECURSIVE ZodIssues(_, _, _)
\* The issues of parsing x, found at path, with schema.
ZodIssues(schema, x, path) ==
  CASE schema.zod = "number" ->
         IF x.t = "number" THEN <<>> ELSE <<InvalidType(<<"number">>, x, path)>>
    [] schema.zod = "string" ->
         IF x.t = "string" THEN <<>> ELSE <<InvalidType(<<"string">>, x, path)>>
    [] schema.zod = "null" ->
         IF x.t = "null" THEN <<>> ELSE <<InvalidType(<<"null">>, x, path)>>
    [] schema.zod = "object" ->
         IF x.t # "object" THEN <<InvalidType(<<"object">>, x, path)>>
         ELSE Concat([i \in 1..Len(schema.shape) |->
                ZodIssues(schema.shape[i][2], OptGet(x, schema.shape[i][1]),
                          Append(path, Str(schema.shape[i][1])))])
    [] OTHER -> <<>>

\* Mutant: the object schema passes unknown keys through.
ZodOutput_Passthrough(schema, x) == x

RECURSIVE ZodOutput(_, _)
\* The parsed value of an accepted x: an object schema keeps the keys of
\* its shape and strips every other key; the leaf schemas return x.
ZodOutput(schema, x) ==
  IF schema.zod = "object"
  THEN Obj([k \in {key \in ShapeKeys(schema) : OptGet(x, key) # Undefined} |->
             LET i == CHOOSE j \in 1..Len(schema.shape) : schema.shape[j][1] = k
             IN ZodOutput(schema.shape[i][2], x.o[k])])
  ELSE x

\* schema.safeParse(data) of a zod schema.
ZodSafeParse(schema, data) ==
  LET issues == ZodIssues(schema, data, <<>>)
  IN IF issues = <<>>
     THEN [t |-> "object", success |-> Bool(TRUE), data |-> ZodOutput(schema, data),
           error |-> Undefined]
     ELSE [t |-> "object", success |-> Bool(FALSE), data |-> Undefined,
           error |-> [t |-> "object", issues |-> Arr(issues)]]

---------------------------------------------------------------------------
(* JSON.stringify *)

K_u == <<"u">>
K_slash == <<"a", "/", "b">>
K_tilde == <<"a", "~", "b">>
K_empty == <<>>
K_extra == <<"extra">>
\* The key spelled like the JSON-pointer escape of K_slash.
K_escaped == <<"a", "~", "1", "b">>

\* The order in which the payloads of this model were given their keys
\* (JSON.stringify writes the properties of an object in insertion order).
KeyOrder == <<K_id, K_userName, K_password, K_extra, K_u, K_slash, K_tilde, K_empty, K_escaped>>

RECURSIVE HasBigInt(_)
\* Does serialising x meet a BigInt?  JSON.stringify then throws a TypeError.
HasBigInt(x) ==
  CASE x.t = "bigint" -> TRUE
    [] x.t = "array" -> \E i \in 1..Len(x.a) : HasBigInt(x.a[i])
    [] x.t = "object" -> \E k \in DOMAIN x.o : HasBigInt(x.o[k])
    [] OTHER -> FALSE

RECURSIVE JsonText(_)
\* The text JSON.stringify(x) returns for a serialisable x.
JsonText(x) ==
  CASE x.t = "string" -> <<"\"">> \o x.s \o <<"\"">>
    [] x.t = "number" -> DecStr(x)
    [] x.t = "boolean" -> IF x.b THEN <<"true">> ELSE <<"false">>
    [] x.t = "array" ->
         <<"[">> \o Join([i \in 1..Len(x.a) |->
                           IF x.a[i].t \in {"undefined", "function"} THEN <<"null">>
                           ELSE JsonText(x.a[i])], <<",">>) \o <<"]">>
    [] x.t = "object" ->
         LET keys == SelectSeq(KeyOrder, LAMBDA k : k \in DOMAIN x.o
                                  /\ x.o[k].t \notin {"undefined", "function"})
         IN <<"{">> \o Join([i \in 1..Len(keys) |->
                              <<"\"">> \o keys[i] \o <<"\":">> \o JsonText(x.o[keys[i]])],
                            <<",">>) \o <<"}">>
    [] OTHER -> <<"null">>

---------------------------------------------------------------------------
(* Outcomes of a call *)

Return(value) == [kind |-> "return", value |-> value]
Throw(error) == [kind |-> "throw", error |-> error]

SchemaNotValidatable == "validateSchemaUsingZod: provided schema does not implement safeParse()"

---------------------------------------------------------------------------
(* validateSchemaUsingZod *)

\* A typed-schema argument is one of
\*   [kind |-> "zod", ...]     a zod schema (see ZodSafeParse),
\*   [kind |-> "stub", result] an object whose safeParse() returns result,
\*   [kind |-> "other", js, safeParse] any other value, with the value of
\*                                     its safeParse property.
\* (schema as any)?.safeParse
SafeParseProp(schema) ==
  IF schema.kind = "other"
  THEN (IF IsNullish(schema.js) THEN Undefined ELSE schema.safeParse)
  ELSE Fn("safeParse")

\* Mutant: only a missing safeParse is refused.
GuardFails_MissingOnly(safeParse) == safeParse = Undefined

\* typeof safeParse !== "function"
GuardFails(safeParse) == safeParse.t # "function"

\* safeParse.call(schema, data)
CallSafeParse(schema, data) ==
  IF schema.kind = "zod" THEN ZodSafeParse(schema, data) ELSE schema.result

\* result && result.success
Succeeded(result) == Truthy(result) /\ Truthy(result.success)

\* Array.isArray(result?.error?.issues) ? result.error.issues : []
RawIssues(result) ==
  IF IsNullish(result) THEN <<>>
  ELSE IF IsNullish(result.error) THEN <<>>
  ELSE IF result.error.issues.t = "array" THEN result.error.issues.a
  ELSE <<>>

\* Array.isArray(iss.path) ? iss.path.map(String) : [String(iss.path)]
IssuePath(iss) ==
  IF iss.path.t = "array"
  THEN [i \in 1..Len(iss.path.a) |-> JsString(iss.path.a[i])]
  ELSE <<JsString(iss.path)>>

\* The body of rawIssues.map((iss) => ...).
MapZodIssue(iss, data) ==
  LET path == IssuePath(iss)
  IN [path |-> path,
      message |-> MessageOf(iss.message),
      expected |-> UndefToNull(iss.expected),
      received |-> UndefToNull(ReceivedOf(data, path))]

\* Is the optional part for value x written?  (e.expected ? ... : "")
PartShown(x) == Truthy(x)

\* One line of the message.
MessageLine(e) ==
  LET p == IF Len(e.path) > 0 THEN Join(e.path, <<".">>) ELSE <<"(root)">>
      ex == IF PartShown(e.expected) THEN <<" | expected: ">> \o JsonText(e.expected) ELSE <<>>
      rc == IF PartShown(e.received) THEN <<" | received: ">> \o JsonText(e.received) ELSE <<>>
  IN <<"path: ">> \o p \o <<" | message: ">> \o e.message \o ex \o rc

\* Does building the message call JSON.stringify on a value it throws on?
MessageThrows(errors) ==
  \E i \in 1..Len(errors) :
     \/ PartShown(errors[i].expected) /\ HasBigInt(errors[i].expected)
     \/ PartShown(errors[i].received) /\ HasBigInt(errors[i].received)

\* Mutant: no fallback text when there is no error to describe.
BuildMessage_NoFallback(errors) ==
  Join([i \in 1..Len(errors) |-> MessageLine(errors[i])], <<"\n">>)

BuildMessage(errors) ==
  IF Len(errors) = 0 THEN <<"Unknown validation error">>
  ELSE Join([i \in 1..Len(errors) |-> MessageLine(errors[i])], <<"\n">>)

validateSchemaUsingZod(schema, data) ==
  LET safeParse == SafeParseProp(schema)
  IN IF GuardFails(safeParse) THEN Throw(SchemaNotValidatable)
     ELSE IF safeParse.t # "function" THEN Throw("TypeError: safeParse.call is not a function")
     ELSE LET result == CallSafeParse(schema, data)
          IN IF Succeeded(result)
             THEN Return([valid |-> TRUE, parsedData |-> result.data,
                          errors |-> Null, message |-> Null])
             ELSE LET rawIssues == RawIssues(result)
                      errors == [i \in 1..Len(rawIssues) |-> MapZodIssue(rawIssues[i], data)]
                  IN IF MessageThrows(errors)
                     THEN Throw("TypeError: Do not know how to serialize a BigInt")
                     ELSE Return([valid |-> FALSE, parsedData |-> Null,
                                  errors |-> Arr(errors),
                                  message |-> Str(BuildMessage(errors))])

\* res.errors || []
OrEmpty(errors) == IF Truthy(errors) THEN errors ELSE Arr(<<>>)

assertSchema(schema, data) ==
  LET res == validateSchemaUsingZod(schema, data)
  IN IF res.kind = "throw" THEN res
     ELSE Return([valid |-> res.value.valid, errors |-> OrEmpty(res.value.errors)])

---------------------------------------------------------------------------
(* validateSchema *)

\* A structural-schema argument is one of
\*   [kind |-> "json", schema]     a JSON Schema (see AjvErrors),
\*   [kind |-> "reported", errors] a schema whose compiled validator
\*                                 reports the given raw errors on any data.
\* ajv.compile(schema) throws on a format the instance does not know; no
\* format is registered with the instance.
RECURSIVE UsesFormat(_)
UsesFormat(schema) ==
  \/ Has(schema, "format")
  \/ Has(schema, "items") /\ UsesFormat(schema.items)
  \/ Has(schema, "properties")
       /\ \E i \in 1..Len(schema.properties) : UsesFormat(schema.properties[i][2])

CompileThrows(schema) == schema.kind = "json" /\ UsesFormat(schema.schema)

\* The violations validate(data) finds.
Violations(schema, data) ==
  IF schema.kind = "json" THEN AjvErrors(schema.schema, data, <<>>) ELSE schema.errors

\* The compiled function not yet run.
NotRun == [t |-> "undefined"]

\* Mutant: a passing run leaves the errors of the previous run in place.
ErrorsAfterValidate_Stale(prev, violations) ==
  IF violations = <<>> THEN prev ELSE Arr(violations)

\* validate.errors once validate(data) has run: null on success, else the
\* array of violations (prev is the property's value before the run).
ErrorsAfterValidate(prev, violations) ==
  IF violations = <<>> THEN Null ELSE Arr(violations)

\* Mutant: only the first error is taken.
RawErrors_FirstOnly(errorsProp) ==
  IF errorsProp.t = "array" THEN SubSeq(errorsProp.a, 1, 1) ELSE <<>>

\* Array.isArray(validate.errors) ? validate.errors : []
RawErrors(errorsProp) == IF errorsProp.t = "array" THEN errorsProp.a ELSE <<>>

\* validateSchema(schema, data) with the compiled function's errors property
\* being prev: the outcome, and the property afterwards.
validateSchema(schema, data, prev) ==
  IF CompileThrows(schema)
  THEN [ret |-> Throw("Error: unknown format"), errors |-> prev]
  ELSE LET violations == Violations(schema, data)
           valid == violations = <<>>
           after == ErrorsAfterValidate(prev, violations)
           rawErrors == RawErrors(after)
           errors == [i \in 1..Len(rawErrors) |-> MapAjvError(rawErrors[i], data)]
       IN [ret |-> Return([valid |-> valid, errors |-> Arr(errors)]), errors |-> after]

---------------------------------------------------------------------------
(* The payloads the operations are applied to *)

User(id, userName, password) ==
  Obj(K_id :> id @@ K_userName :> userName @@ K_password :> password)

\* obj without key k
Without(obj, k) == Obj([key \in DOMAIN obj.o \ {k} |-> obj.o[key]])
\* obj with key k set to x
With(obj, k, x) == Obj([key \in DOMAIN obj.o \cup {k} |-> IF key = k THEN x ELSE obj.o[key]])

S_a == Str(<<"a">>)
S_b == Str(<<"b">>)
S_empty == Str(<<>>)

GoodUser == User(Num(1), S_a, S_b)

\* Payloads that are user records, conforming or not.
UserPayloads ==
  { GoodUser,
    User(Num(0), S_empty, S_b),
    User(NumF(1, 5), S_a, S_b),
    Without(GoodUser, K_id), Without(GoodUser, K_userName), Without(GoodUser, K_password),
    User(Str(<<"1">>), S_a, S_b), User(S_empty, S_a, S_b), User(Bool(FALSE), S_a, S_b),
    User(BigInt(1), S_a, S_b), User(BigInt(0), S_a, S_b),
    User(Obj(K_id :> Num(1)), S_a, S_b), User(Arr(<<BigInt(2)>>), S_a, S_b),
    User(Num(1), Num(0), S_b), User(Num(1), Num(7), S_b),
    User(Num(1), S_a, Null), User(Num(1), S_a, Arr(<<S_a>>)),
    With(GoodUser, K_extra, Num(3)),
    With(Without(GoodUser, K_password), K_extra, S_a),
    Without(User(Str(<<"1">>), S_a, S_b), K_password),
    EmptyObj }

\* Payloads of other shapes.
OtherPayloads ==
  { Null, Undefined, Num(5), Num(0), S_a, S_empty, Bool(FALSE), BigInt(1),
    Arr(<<>>), Arr(<<GoodUser>>), Arr(<<GoodUser, Without(GoodUser, K_password)>>),
    Arr(<<User(NumF(1, 5), S_a, S_b), User(Str(<<"1">>), Num(0), S_b)>>),
    Obj(K_u :> GoodUser), Obj(K_u :> User(Str(<<"1">>), S_a, S_b)),
    Obj(K_u :> Without(GoodUser, K_userName)), Obj(K_u :> Null),
    Obj(K_u :> GoodUser @@ K_slash :> S_a), Obj(K_u :> GoodUser @@ K_slash :> Num(1)),
    Obj(K_u :> GoodUser @@ K_tilde :> S_a), Obj(K_u :> GoodUser @@ K_empty :> S_a),
    Obj(K_u :> GoodUser @@ K_slash :> S_a @@ K_escaped :> Num(2)) }

Payloads == UserPayloads \cup OtherPayloads

---------------------------------------------------------------------------
(* The schemas the operations are applied to *)

\* { type: "object", properties: { u: <single user>, "a/b": number,
\*   "a~b": number, "": number }, required: ["u"] }
nestedSchema ==
  [type |-> <<"object">>,
   properties |-> << <<K_u, singleUserSchema>>,
                     <<K_slash, [type |-> <<"number">>]>>,
                     <<K_tilde, [type |-> <<"number">>]>>,
                     <<K_empty, [type |-> <<"number">>]>> >>,
   required |-> <<K_u>>]

\* { type: "object", properties: { userName: { enum: ["a", 1] } } }
enumSchema ==
  [type |-> <<"object">>,
   properties |-> << <<K_userName, [enum |-> <<S_a, Num(1)>>]>> >>]

\* { type: "string", enum: ["a"] }
stringEnumSchema == [type |-> <<"string">>, enum |-> <<S_a>>]

\* { type: "object", properties: { userName: { type: "string", format: "handle" } } }
formatSchema ==
  [type |-> <<"object">>,
   properties |-> << <<K_userName, [type |-> <<"string">>, format |-> <<"handle">>]>> >>]

Ptr(s) == Str(s)
T_number == Str(<<"number">>)
F_email == Str(<<"email">>)
AV == Arr(<<S_a, S_b>>)
M_bad == Str(<<"bad">>)

\* Raw error lists of validators outside the modelled keywords: every
\* combination of parameters the code distinguishes, both pointer properties,
\* pointers into absent parts of the data, and absent messages.
ReportedA ==
  << RawError(Ptr(<<"/", "id">>), Undefined, Params(AV, T_number, F_email), M_bad),
     RawError(Ptr(<<"/", "userName">>), Undefined, Params(Undefined, T_number, F_email), M_bad) >>
ReportedB ==
  << RawError(Ptr(<<>>), Undefined, Params(Undefined, Undefined, F_email), M_bad),
     RawError(Ptr(<<"/", "u", "/", "id">>), Undefined, Undefined, Undefined) >>
ReportedC ==
  << RawError(Undefined, Ptr(<<"/", "password">>), Params(Null, T_number, Undefined), Num(4)),
     RawError(Undefined, Undefined, Null, Null) >>
ReportedD ==
  << RawError(Undefined, Ptr(<<".", "id">>), Params(Undefined, Undefined, Undefined), M_bad),
     RawError(Ptr(<<"/", "0", "/", "id">>), Ptr(<<"/", "id">>), Params(Num(0), Undefined, Undefined), M_bad),
     RawError(Ptr(<<"/", "id", "/", "length">>), Undefined, Params(Undefined, S_empty, Undefined), M_bad) >>

StructSchemaNames ==
  {"singleUserSchema", "allUserSchema", "nestedSchema", "enumSchema", "stringEnumSchema",
   "formatSchema", "reportedA", "reportedB", "reportedC", "reportedD"}

StructSchema(name) ==
  CASE name = "singleUserSchema" -> [kind |-> "json", schema |-> singleUserSchema]
    [] name = "allUserSchema" -> [kind |-> "json", schema |-> allUserSchema]
    [] name = "nestedSchema" -> [kind |-> "json", schema |-> nestedSchema]
    [] name = "enumSchema" -> [kind |-> "json", schema |-> enumSchema]
    [] name = "stringEnumSchema" -> [kind |-> "json", schema |-> stringEnumSchema]
    [] name = "formatSchema" -> [kind |-> "json", schema |-> formatSchema]
    [] name = "reportedA" -> [kind |-> "reported", errors |-> ReportedA]
    [] name = "reportedB" -> [kind |-> "reported", errors |-> ReportedB]
    [] name = "reportedC" -> [kind |-> "reported", errors |-> ReportedC]
    [] name = "reportedD" -> [kind |-> "reported", errors |-> ReportedD]

\* z.object({ u: zodSingleUserSchema })
zodNestedSchema == [zod |-> "object", shape |-> << <<K_u, zodSingleUserSchema>> >>]

Failure(error) == [t |-> "object", success |-> Bool(FALSE), data |-> Undefined, error |-> error]
Issues(issues) == [t |-> "object", issues |-> issues]

\* Results of safeParse() implementations other than zod's.
StubIssuesA ==
  Failure(Issues(Arr(<<
    ZodIssue(Str(K_id), Undefined, Num(0)),
    ZodIssue(Arr(<<Str(K_u), Str(K_id)>>), M_bad, Undefined),
    ZodIssue(Arr(<<>>), M_bad, AV) >>)))
StubIssuesB ==
  Failure(Issues(Arr(<<
    ZodIssue(Arr(<<Num(0), Str(K_userName)>>), Null, S_empty),
    ZodIssue(Undefined, Num(4), Bool(FALSE)) >>)))

TypedSchemaNames ==
  {"zodSingleUserSchema", "zodNestedSchema", "zNumber", "zString", "zNull", "zAny",
   "stubNoResult", "stubNoError", "stubNoIssues", "stubIssuesNotArray",
   "stubIssuesA", "stubIssuesB", "stubSuccessNull", "stubSuccessTruthy",
   "null", "undefined", "plainObject", "safeParseString", "safeParseNull"}

Zod(schema) == [kind |-> "zod", zod |-> schema.zod,
                shape |-> IF "shape" \in DOMAIN schema THEN schema.shape ELSE <<>>]
Stub(result) == [kind |-> "stub", result |-> result]
Other(js, safeParse) == [kind |-> "other", js |-> js, safeParse |-> safeParse]

TypedSchema(name) ==
  CASE name = "zodSingleUserSchema" -> Zod(zodSingleUserSchema)
    [] name = "zodNestedSchema" -> Zod(zodNestedSchema)
    [] name = "zNumber" -> Zod([zod |-> "number"])
    [] name = "zString" -> Zod([zod |-> "string"])
    [] name = "zNull" -> Zod([zod |-> "null"])
    [] name = "zAny" -> Zod([zod |-> "any"])
    [] name = "stubNoResult" -> Stub(Undefined)
    [] name = "stubNoError" -> Stub(Failure(Undefined))
    [] name = "stubNoIssues" -> Stub(Failure(Issues(Undefined)))
    [] name = "stubIssuesNotArray" -> Stub(Failure(Issues(Str(<<"bad">>))))
    [] name = "stubIssuesA" -> Stub(StubIssuesA)
    [] name = "stubIssuesB" -> Stub(StubIssuesB)
    [] name = "stubSuccessNull" ->
         Stub([t |-> "object", success |-> Bool(TRUE), data |-> Null, error |-> Undefined])
    [] name = "stubSuccessTruthy" ->
         Stub([t |-> "object", success |-> Num(1), data |-> GoodUser, error |-> Undefined])
    [] name = "null" -> Other(Null, Undefined)
    [] name = "undefined" -> Other(Undefined, Undefined)
    [] name = "plainObject" -> Other(EmptyObj, Undefined)
    [] name = "safeParseString" -> Other(EmptyObj, Str(<<"safeParse">>))
    [] name = "safeParseNull" -> Other(EmptyObj, Null)

---------------------------------------------------------------------------
(* The state machine: calls of the three exported functions *)

\* Calls made in one run of the broad specification.
MaxCalls == 1
\* Calls made in one run of the sequence specification.
MaxSeqCalls == 3

NoCall == [fn |-> "none", schema |-> "none", data |-> Undefined]
NoRet == [kind |-> "none"]

\* A parameter with a default value: the default replaces undefined only.
DefaultParam(arg, default) == IF arg = Undefined THEN default ELSE arg

\* new UsersService(apiRequest, "api/v1")
FixtureBasePath == Str(<<"api", "/", "v1">>)

\* constructor(request, basePath = ""): the value of this.basePath
Constructor(basePathArg) == DefaultParam(basePathArg, S_empty).s

Init ==
  /\ call = NoCall
  /\ ret = NoRet
  /\ validateErrors = [n \in StructSchemaNames |-> NotRun]
  /\ dataAfter = Undefined
  /\ ncalls = 0
  /\ first = NoCall
  /\ firstRet = NoRet
  /\ basePath = Constructor(FixtureBasePath)
  /\ effects = <<>>
  /\ calls = <<>>

\* Bookkeeping common to the calls: the call, its outcome and the history.
Made(fn, name, data, outcome, record) ==
  /\ call' = [fn |-> fn, schema |-> name, data |-> data]
  /\ ret' = outcome
  /\ dataAfter' = data
  /\ ncalls' = ncalls + 1
  /\ first' = IF record /\ ncalls = 0 THEN call' ELSE first
  /\ firstRet' = IF record /\ ncalls = 0 THEN outcome ELSE firstRet
  /\ UNCHANGED clientVars

\* The values validate.errors can hold for a schema of the model.
ErrorsPropValues(name) ==
  {NotRun, Null} \cup {Arr(Violations(StructSchema(name), d)) : d \in Payloads}

\* The three functions tabulated over the schemas and payloads of the model,
\* so that each application is computed once (f @@ <<>> is f, enumerated).
validateSchemaTable ==
  [name \in StructSchemaNames |->
    [data \in Payloads |->
      [prev \in ErrorsPropValues(name) |->
        validateSchema(StructSchema(name), data, prev)] @@ <<>>] @@ <<>>] @@ <<>>

validateSchemaUsingZodTable ==
  [name \in TypedSchemaNames |->
    [data \in Payloads |-> validateSchemaUsingZod(TypedSchema(name), data)] @@ <<>>] @@ <<>>

assertSchemaTable ==
  [name \in TypedSchemaNames |->
    [data \in Payloads |-> assertSchema(TypedSchema(name), data)] @@ <<>>] @@ <<>>

ValidateSchema(name, data, record) ==
  LET r == validateSchemaTable[name][data][validateErrors[name]]
  IN /\ validateErrors' = [validateErrors EXCEPT ![name] = r.errors]
     /\ Made("validateSchema", name, data, r.ret, record)

ValidateSchemaUsingZod(name, data, record) ==
  /\ UNCHANGED validateErrors
  /\ Made("validateSchemaUsingZod", name, data,
          validateSchemaUsingZodTable[name][data], record)

AssertSchema(name, data, record) ==
  /\ UNCHANGED validateErrors
  /\ Made("assertSchema", name, data, assertSchemaTable[name][data], record)

Next ==
  /\ ncalls < MaxCalls
  /\ \/ \E name \in StructSchemaNames, data \in Payloads : ValidateSchema(name, data, FALSE)
     \/ \E name \in TypedSchemaNames, data \in Payloads : ValidateSchemaUsingZod(name, data, FALSE)
     \/ \E name \in TypedSchemaNames, data \in Payloads : AssertSchema(name, data, FALSE)

Spec == Init /\ [][Next]_vars

\* The sequence specification: several calls in a row on the one ajv
\* instance, over fewer schemas and payloads, with the first call recorded.
SeqStructSchemaNames == {"singleUserSchema", "reportedA"}
SeqTypedSchemaNames == {"zodSingleUserSchema", "zAny", "stubSuccessNull", "plainObject"}
SeqPayloads ==
  {GoodUser, Without(GoodUser, K_password), User(Str(<<"1">>), S_a, S_b), Null}

NextSeq ==
  /\ ncalls < MaxSeqCalls
  /\ \/ \E name \in SeqStructSchemaNames, data \in SeqPayloads : ValidateSchema(name, data, TRUE)
     \/ \E name \in SeqTypedSchemaNames, data \in SeqPayloads : ValidateSchemaUsingZod(name, data, TRUE)
     \/ \E name \in SeqTypedSchemaNames, data \in SeqPayloads : AssertSchema(name, data, TRUE)

SpecSeq == Init /\ [][NextSeq]_vars

---------------------------------------------------------------------------
(* BaseClient and UsersService *)

\* Mutant: the base path is left out of the URL.
ResolveUrl_PathOnly(base, path) == path

\* `${this.basePath}${path}`
ResolveUrl(base, path) == base \o path

\* `GET Request URL: ${this.basePath}${path}`
LogLine(verb, base, path) == <<verb, " Request URL: ">> \o ResolveUrl(base, path)

K_data == <<"data">>
K_timeout == <<"timeout">>

\* { data, ...options }: the properties of options, and data unless options
\* has a data property of its own.
WithData(data, options) ==
  Obj([k \in {K_data} \cup DOMAIN options.o |->
         IF k \in DOMAIN options.o THEN options.o[k] ELSE data])

ConsoleLog(line) == [ev |-> "console.log", line |-> line]
TransportCall(method, url, options) ==
  [ev |-> "request", method |-> method, url |-> url, options |-> options]

Pending == [state |-> "pending", status |-> 0]
Fulfilled(status) == [state |-> "fulfilled", status |-> status]
Rejected == [state |-> "rejected", status |-> 0]

\* Calls made on one client in a run.
MaxHttpCalls == 2

\* The body of a BaseClient method up to its return: the line is written,
\* then the request is handed to the transport, whose promise is returned.
\* op names the UsersService operation the call came through, if any.
Dispatch(op, verb, method, path, options) ==
  /\ Len(calls) < MaxHttpCalls
  /\ effects' = effects \o << ConsoleLog(LogLine(verb, basePath, path)),
                             TransportCall(method, ResolveUrl(basePath, path), options) >>
  /\ calls' = Append(calls, [op |-> op, method |-> method, path |-> path,
                             promise |-> Pending])
  /\ UNCHANGED <<basePath, validatorVars>>

Get(op, path, options) ==
  Dispatch(op, "GET", "get", path, DefaultParam(options, EmptyObj))
Post(op, path, data, options) ==
  Dispatch(op, "POST", "post", path, WithData(data, DefaultParam(options, EmptyObj)))
Put(op, path, data, options) ==
  Dispatch(op, "PUT", "put", path, WithData(data, DefaultParam(options, EmptyObj)))
Delete(op, path, options) ==
  Dispatch(op, "DELETE", "delete", path, DefaultParam(options, EmptyObj))
Patch(op, path, data, options) ==
  Dispatch(op, "PATCH", "patch", path, WithData(data, DefaultParam(options, EmptyObj)))

P_Users == <<"/", "Users">>
\* `/Users/${id}`
P_User(id) == <<"/", "Users", "/">> \o id

CreateUser(payload) == Post("createUser", P_Users, payload, Undefined)
GetUser(id) == Get("getUser", P_User(id), Undefined)
GetAllUser == Get("getAllUser", P_Users, Undefined)
UpdateUser(id, payload) == Put("updateUser", P_User(id), payload, Undefined)
DeleteUser(id) == Delete("deleteUser", P_User(id), Undefined)

\* The transport settles the promise of call i: a response of any status,
\* or a failure.  No code of the client runs on either.
Settle(i, outcome) ==
  /\ calls[i].promise = Pending
  /\ calls' = [calls EXCEPT ![i].promise = outcome]
  /\ UNCHANGED <<basePath, effects, validatorVars>>

BasePathArgs == {Undefined, FixtureBasePath}
DirectPaths == {<<"/", "x">>}
OptionArgs == {Undefined, Obj(K_timeout :> Num(1) @@ K_data :> Null)}
Ids == {<<"1">>}
Bodies == {GoodUser}
Outcomes == {Fulfilled(200), Fulfilled(500), Rejected}

InitHttp ==
  /\ call = NoCall
  /\ ret = NoRet
  /\ validateErrors = [n \in StructSchemaNames |-> NotRun]
  /\ dataAfter = Undefined
  /\ ncalls = 0
  /\ first = NoCall
  /\ firstRet = NoRet
  /\ \E arg \in BasePathArgs : basePath = Constructor(arg)
  /\ effects = <<>>
  /\ calls = <<>>

NextHttp ==
  \/ \E path \in DirectPaths, options \in OptionArgs : Get("none", path, options)
  \/ \E path \in DirectPaths, data \in Bodies, options \in OptionArgs :
        Post("none", path, data, options)
  \/ \E path \in DirectPaths, data \in Bodies, options \in OptionArgs :
        Put("none", path, data, options)
  \/ \E path \in DirectPaths, options \in OptionArgs : Delete("none", path, options)
  \/ \E path \in DirectPaths, data \in Bodies, options \in OptionArgs :
        Patch("none", path, data, options)
  \/ \E payload \in Bodies : CreateUser(payload)
  \/ \E id \in Ids : GetUser(id)
  \/ GetAllUser
  \/ \E id \in Ids, payload \in Bodies : UpdateUser(id, payload)
  \/ \E id \in Ids : DeleteUser(id)
  \/ \E i \in 1..Len(calls), outcome \in Outcomes : Settle(i, outcome)

SpecHttp == InitHttp /\ [][NextHttp]_vars

---------------------------------------------------------------------------
(* Properties *)

Returned == ret.kind = "return"
Threw == ret.kind = "throw"
Structural == call.fn = "validateSchema"
Typed == call.fn = "validateSchemaUsingZod"
Asserted == call.fn = "assertSchema"

\* The error entries of a returned result (none when errors is null).
Entries == IF Returned /\ ret.value.errors.t = "array" THEN ret.value.errors.a ELSE <<>>

\* C1 as stated: a result with valid = true carries no errors: the
\* structural result has an empty errors sequence, the typed result has
\* errors = null and a parsedData that is not null.
C1_Original ==
  (Returned /\ ret.value.valid) =>
     /\ Structural => ret.value.errors = Arr(<<>>)
     /\ Typed => ret.value.errors = Null /\ ret.value.parsedData # Null

\* C1 (amended): a result with valid = true carries no errors: the
\* structural result has an empty errors sequence; the typed result has
\* errors = null and message = null, and its parsedData is the value the
\* schema's safe validation produced, which is not null for
\* zodSingleUserSchema but is null when the schema accepts a null payload.
C1_ValidCarriesNoErrors ==
  (Returned /\ ret.value.valid) =>
     /\ Structural => ret.value.errors = Arr(<<>>)
     /\ Typed => /\ ret.value.errors = Null
                 /\ ret.value.message = Null
                 /\ ret.value.parsedData = CallSafeParse(TypedSchema(call.schema), call.data).data
                 /\ call.schema = "zodSingleUserSchema" => ~IsNullish(ret.value.parsedData)
                 /\ (call.schema = "zAny" /\ call.data = Null) => ret.value.parsedData = Null

\* A valid typed result whose parsedData is null, after a structural call
\* that passed.
C1_Witness ==
  /\ Typed /\ Returned /\ ret.value.valid /\ ret.value.parsedData = Null
  /\ first.fn = "validateSchema" /\ firstRet.kind = "return" /\ firstRet.value.valid

RECURSIVE ValueAt(_, _)
\* The value reached from data along path, Undefined when a value on the
\* way is absent (undefined or null).
ValueAt(data, path) ==
  IF path = <<>> THEN data
  ELSE LET parent == ValueAt(data, SubSeq(path, 1, Len(path) - 1))
       IN IF IsNullish(parent) THEN Undefined ELSE PropertyOf(parent, path[Len(path)])

\* C2: each error's received is the value reached by walking the original
\* data along the error's path (the whole data for the empty path), and it
\* is null, without the call failing on the walk, when a value on the path
\* is absent.
C2_ReceivedIsValueAtPath ==
  ((Structural \/ Typed) /\ Returned) =>
     \A i \in 1..Len(Entries) :
        LET v == ValueAt(call.data, Entries[i].path)
        IN Entries[i].received = (IF IsNullish(v) THEN Null ELSE v)

\* An error whose path runs through an absent intermediate value, and one
\* whose path of two keys reaches a value.
C2_Witness ==
  /\ Returned /\ Typed
  /\ \E i \in 1..Len(Entries) :
        /\ Len(Entries[i].path) = 2
        /\ IsNullish(OptGet(call.data, Entries[i].path[1]))
        /\ Entries[i].received = Null
  /\ \E i \in 1..Len(Entries) :
        /\ Len(Entries[i].path) = 1
        /\ ~IsNullish(Entries[i].received)

RECURSIVE WrongTyped(_, _, _)
\* The values in x, x itself and its fields at any key and depth, whose type
\* is not the one the schema declares for them: [path, expected, received]
\* for each, path being the keys and indices leading to it from x (found at
\* keys).
WrongTyped(schema, x, keys) ==
  IF Has(schema, "type") /\ ~IsJsonType(schema.type, x)
  THEN {[path |-> keys, expected |-> Str(schema.type), received |-> x]}
  ELSE UNION (
         {IF Has(schema, "properties") /\ x.t = "object"
          THEN UNION {IF schema.properties[i][1] \in DOMAIN x.o
                      THEN WrongTyped(schema.properties[i][2], x.o[schema.properties[i][1]],
                                      Append(keys, schema.properties[i][1]))
                      ELSE {} : i \in 1..Len(schema.properties)}
          ELSE {}}
         \cup
         {IF Has(schema, "items") /\ x.t = "array"
          THEN UNION {WrongTyped(schema.items, x.a[i], Append(keys, <<ToString(i - 1)>>))
                      : i \in 1..Len(x.a)}
          ELSE {}})

\* The fields (values below the root) of wrong type.
WrongTypedFields(schema, x) == {w \in WrongTyped(schema, x, <<>>) : w.path # <<>>}

JsonSchemaCall == Structural /\ Returned /\ StructSchema(call.schema).kind = "json"

\* C3 as stated: for every payload in which a field at any key and any
\* nesting depth has the wrong type, validateSchema returns an errors entry
\* whose path is the keys/indices leading to the field, whose expected is
\* the declared type name and whose received is the offending value.
C3_Original ==
  JsonSchemaCall =>
     \A w \in WrongTypedFields(StructSchema(call.schema).schema, call.data) :
        \E i \in 1..Len(Entries) :
           /\ Entries[i].path = w.path
           /\ Entries[i].expected = w.expected
           /\ Entries[i].received = w.received

\* The same, for fields whose keys need no JSON-pointer escaping and are
\* not empty (not a claim: what remains true of the code).
PlainKey(key) == key # <<>> /\ \A j \in 1..Len(key) : key[j] \notin {"/", "~"}

C3_PlainKeys ==
  JsonSchemaCall =>
     \A w \in WrongTypedFields(StructSchema(call.schema).schema, call.data) :
        (\A j \in 1..Len(w.path) : PlainKey(w.path[j])) =>
           \E i \in 1..Len(Entries) :
              /\ Entries[i].path = w.path
              /\ Entries[i].expected = w.expected
              /\ Entries[i].received = w.received

\* The violations the validator reported to the call.
Reported == Violations(StructSchema(call.schema), call.data)

\* The expected value the claim prescribes for a violation: by priority, the
\* allowed values, the type name, the format name (a parameter is present
\* when it is not undefined), else null.
ExpectedByPriority(e) ==
  CASE IsNullish(e.params) -> Null
    [] e.params.allowedValues # Undefined -> e.params.allowedValues
    [] e.params.allowedValues = Undefined /\ e.params.type # Undefined -> e.params.type
    [] e.params.allowedValues = Undefined /\ e.params.type = Undefined
         /\ e.params.format # Undefined -> e.params.format
    [] OTHER -> Null

\* C4: for each violation reported to validateSchema, expected is the
\* allowed-values set if the violation's parameters have one, otherwise the
\* type name if present, otherwise the format name if present, otherwise
\* null (also without parameters); it is never undefined.
C4_ExpectedByPriority ==
  (Structural /\ Returned) =>
     /\ Len(Entries) = Len(Reported)
     /\ \A i \in 1..Len(Entries) :
           /\ Entries[i].expected = ExpectedByPriority(Reported[i])
           /\ Entries[i].expected # Undefined

\* Violations with all three parameters and with type and format only were
\* reported, and one without parameters.
C4_Witness ==
  /\ Structural /\ Returned /\ Len(Entries) = 2
  /\ Reported[1].params # Undefined /\ Reported[1].params.allowedValues # Undefined
  /\ Reported[1].params.type # Undefined /\ Reported[1].params.format # Undefined
  /\ Entries[1].expected = Reported[1].params.allowedValues
  /\ Reported[2].params.allowedValues = Undefined
  /\ Entries[2].expected = Reported[2].params.type

\* The typed-schema arguments that do not expose a callable safeParse.
NotValidatable == {"null", "undefined", "plainObject", "safeParseString", "safeParseNull"}

\* C5: validateSchemaUsingZod throws the SchemaNotValidatable error whenever
\* the schema does not expose a callable safeParse, for any data;
\* assertSchema propagates it, and no result is returned.
C5_SchemaNotValidatable ==
  ((Typed \/ Asserted) /\ call.schema \in NotValidatable) =>
     ret = Throw(SchemaNotValidatable)

\* assertSchema was called with a schema whose safeParse is not a function.
C5_Witness ==
  /\ Asserted /\ call.schema = "safeParseString" /\ Threw
  /\ call.data = GoodUser

\* C6 as stated: for every schema exposing safe validation and every
\* payload, assertSchema does not throw: it returns exactly { valid, errors }
\* with validateSchemaUsingZod's verdict and its errors sequence, the empty
\* sequence when that is null.
C6_Original ==
  (Asserted /\ call.schema \notin NotValidatable) =>
     /\ Returned
     /\ DOMAIN ret.value = {"valid", "errors"}
     /\ ret.value.errors.t = "array"
     /\ LET res == validateSchemaUsingZod(TypedSchema(call.schema), call.data)
        IN /\ res.kind = "return"
           /\ ret.value.valid = res.value.valid
           /\ ret.value.errors = (IF res.value.errors = Null THEN Arr(<<>>) ELSE res.value.errors)

\* The line the claim prescribes for an error entry.
LineAsClaimed(e) ==
  <<"path: ">> \o (IF e.path = <<>> THEN <<"(root)">> ELSE Join(e.path, <<".">>))
    \o <<" | message: ">> \o e.message
    \o (IF e.expected # Null THEN <<" | expected: ">> \o JsonText(e.expected) ELSE <<>>)
    \o (IF e.received # Null THEN <<" | received: ">> \o JsonText(e.received) ELSE <<>>)

\* C7 as stated: a failing validateSchemaUsingZod returns valid = false and
\* parsedData = null, and a message of one line per errors entry, in order,
\* joined by newlines; a line is "path: P | message: M", then
\* " | expected: <json>" whenever expected is non-null and
\* " | received: <json>" whenever received is non-null.
C7_Original ==
  (Typed /\ Returned /\ ~ret.value.valid /\ Len(Entries) > 0) =>
     /\ ret.value.parsedData = Null
     /\ ret.value.message =
          Str(Join([i \in 1..Len(Entries) |-> LineAsClaimed(Entries[i])], <<"\n">>))

\* The payload without the keys that are not in keys.
Restrict(x, keys) == Obj([k \in DOMAIN x.o \cap keys |-> x.o[k]])

UserKeys == {K_id, K_userName, K_password}

AcceptedUser ==
  /\ Typed /\ call.schema = "zodSingleUserSchema"
  /\ Returned /\ ret.value.valid

\* C8 as stated: for every payload zodSingleUserSchema accepts,
\* validateSchemaUsingZod returns parsedData deep-equal to the payload.
C8_Original == AcceptedUser => ret.value.parsedData = call.data

\* C8 (amended): for every payload zodSingleUserSchema accepts, parsedData is
\* deep-equal to the payload without its keys other than id, userName and
\* password: deep-equal to the payload exactly when it has no other key.
C8_RoundTripOnSchemaKeys ==
  AcceptedUser =>
     /\ ret.value.parsedData = Restrict(call.data, UserKeys)
     /\ (ret.value.parsedData = call.data) <=> (DOMAIN call.data.o \subseteq UserKeys)

\* An accepted payload with a key the schema does not declare.
C8_Witness == AcceptedUser /\ K_extra \in DOMAIN call.data.o

LacksOnly(x, key) ==
  /\ x.t = "object"
  /\ key \notin DOMAIN x.o
  /\ UserKeys \ {key} \subseteq DOMAIN x.o
  /\ K_id # key => x.o[K_id].t = "number"
  /\ K_userName # key => x.o[K_userName].t = "string"
  /\ K_password # key => x.o[K_password].t = "string"

\* C10: for every payload that lacks exactly one required field of the
\* single-user structural schema and conforms otherwise, validateSchema
\* returns valid = false and exactly one error, whose path includes the
\* missing key or is the empty (root) path.
C10_OneErrorForMissingField ==
  \A key \in UserKeys :
     (Structural /\ call.schema = "singleUserSchema" /\ LacksOnly(call.data, key)) =>
        /\ Returned /\ ~ret.value.valid
        /\ Len(Entries) = 1
        /\ \/ Entries[1].path = <<>>
           \/ \E j \in 1..Len(Entries[1].path) : Entries[1].path[j] = key

\* validateSchema was applied to a user without its password.
C10_Witness ==
  /\ Structural /\ call.schema = "singleUserSchema"
  /\ LacksOnly(call.data, K_password) /\ K_extra \in DOMAIN call.data.o
  /\ Returned /\ Len(Entries) = 1

---------------------------------------------------------------------------
(* C11 *)

EndsWith(line, url) ==
  /\ Len(line) >= Len(url)
  /\ SubSeq(line, Len(line) - Len(url) + 1, Len(line)) = url

\* What call k did: the effects are two per call, in the order of the calls.
Logged(k) == effects[2 * k - 1]
Handed(k) == effects[2 * k]

\* C11: for every call of get/post/put/patch/delete, directly or through a
\* UsersService operation, and whatever became of its promise (pending,
\* a response of any status, a failure): the client wrote one console line
\* and then handed one request to the transport, and did nothing else; the
\* request has the method of the call and the URL basePath followed by the
\* path given, and the line written before it ends with that same URL.
C11_OneRequestPerCall ==
  /\ Len(effects) = 2 * Len(calls)
  /\ \A k \in 1..Len(calls) :
       LET url == basePath \o calls[k].path
       IN /\ Logged(k).ev = "console.log"
          /\ EndsWith(Logged(k).line, url)
          /\ Handed(k).ev = "request"
          /\ Handed(k).method = calls[k].method
          /\ Handed(k).url = url

\* Two calls on a client with a base path, the first through UsersService
\* and failed, the second answered with status 500.
C11_Witness ==
  /\ basePath # <<>>
  /\ Len(calls) = 2
  /\ calls[1].op = "updateUser" /\ calls[1].promise = Rejected
  /\ calls[2].promise = Fulfilled(500)

---------------------------------------------------------------------------
(* C12 *)

\* The issues the typed schema's safeParse reported for the call.
ReportedIssues == RawIssues(CallSafeParse(TypedSchema(call.schema), call.data))

\* C12: the errors sequence returned by validateSchema has one entry for
\* each violation the compiled validator reported, the i-th entry made from
\* the i-th violation, and valid is true exactly when there is no violation;
\* the errors sequence of a failure returned by validateSchemaUsingZod has
\* one entry for each issue safeParse reported, the i-th entry made from the
\* i-th issue.
C12_OneEntryPerViolationInOrder ==
  /\ (Structural /\ Returned) =>
       /\ Len(Entries) = Len(Reported)
       /\ \A i \in 1..Len(Reported) : Entries[i] = MapAjvError(Reported[i], call.data)
       /\ ret.value.valid <=> (Len(Reported) = 0)
  /\ (Typed /\ Returned /\ ~ret.value.valid) =>
       /\ ret.value.errors.t = "array"
       /\ Len(Entries) = Len(ReportedIssues)
       /\ \A i \in 1..Len(ReportedIssues) :
            Entries[i] = MapZodIssue(ReportedIssues[i], call.data)

\* A user without password and with an id of the wrong type: two
\* violations and two different entries, one at the root and one at id.
C12_Witness ==
  /\ Structural /\ Returned /\ call.schema = "singleUserSchema"
  /\ Len(Reported) = 2
  /\ Len(Entries) = 2
  /\ {Entries[1].path, Entries[2].path} = {<<>>, <<K_id>>}
  /\ ~ret.value.valid

---------------------------------------------------------------------------
(* C13 *)

\* What safeParse returned for the call, when the schema has a safeParse.
SafeParseResult == CallSafeParse(TypedSchema(call.schema), call.data)

HasIssueList(result) ==
  /\ result.t = "object"
  /\ result.error.t = "object"
  /\ result.error.issues.t = "array"

\* The call's schema has a safeParse, which reported failure and gave no
\* list of issues.
FailedWithoutIssueList ==
  /\ TypedSchema(call.schema).kind \in {"zod", "stub"}
  /\ ~Succeeded(SafeParseResult)
  /\ ~HasIssueList(SafeParseResult)

\* C13: when safeParse reports failure without a list of issues,
\* validateSchemaUsingZod returns valid = false, parsedData = null, an empty
\* errors sequence and the message "Unknown validation error", and
\* assertSchema returns valid = false with an empty errors sequence; and
\* every failure result of validateSchemaUsingZod has a message that is a
\* non-empty string.
C13_UnknownValidationError ==
  /\ (Typed /\ FailedWithoutIssueList) =>
       /\ Returned
       /\ ret.value = [valid |-> FALSE, parsedData |-> Null, errors |-> Arr(<<>>),
                       message |-> Str(<<"Unknown validation error">>)]
  /\ (Asserted /\ FailedWithoutIssueList) =>
       /\ Returned
       /\ ret.value = [valid |-> FALSE, errors |-> Arr(<<>>)]
  /\ (Typed /\ Returned /\ ~ret.value.valid) =>
       /\ ret.value.message.t = "string"
       /\ ret.value.message.s # <<>>

\* safeParse returned { success: false, error: {} }.
C13_Witness ==
  /\ Typed /\ call.schema = "stubNoIssues"
  /\ Returned /\ ~ret.value.valid
  /\ ret.value.errors = Arr(<<>>)
  /\ ret.value.message = Str(<<"Unknown validation error">>)

===========================================================================
